---- MODULE Spec2Model ----
(***************************************************************************)
(* Model of quantmod/tools.py: the theming helpers get_theme,              *)
(* get_skeleton, make_colors, make_traces, make_additions, make_layout and *)
(* get_template, over the module-level THEMES and SKELETON.                *)
(*                                                                         *)
(* Python values are tagged records, so that the isinstance tests and the  *)
(* truth tests of the code can be evaluated:                               *)
(*   [t |-> "none"]  [t |-> "bool", b]  [t |-> "int", n]  [t |-> "str", s] *)
(*   [t |-> "tuple", e]  [t |-> "list", e]  [t |-> "dict", d]              *)
(*   [t |-> "obj"]   (a foreign object: no items(), not iterable)          *)
(* A call's result is [kind |-> "return", value] or [kind |-> "raise",     *)
(* exc].  Objects are passed by reference in Python: a reference is        *)
(* [val, origin], origin naming the module-level object it aliases, or     *)
(* "fresh" for an object of its own (a deep copy, a literal).  A function  *)
(* that updates an argument in place gives the argument's value after the  *)
(* call beside its result.                                                 *)
(***************************************************************************)
EXTENDS Integers, Sequences, FiniteSets, TLC

VARIABLES THEMES, SKELETON, config, call

vars == <<THEMES, SKELETON, config, call>>

---------------------------------------------------------------------------
(* Python values *)

None == [t |-> "none"]
Bool(b) == [t |-> "bool", b |-> b]
Num(n) == [t |-> "int", n |-> n]
Str(s) == [t |-> "str", s |-> s]
Tuple(e) == [t |-> "tuple", e |-> e]
List(e) == [t |-> "list", e |-> e]
Dict(d) == [t |-> "dict", d |-> d]
Obj == [t |-> "obj"]

EmptyMap == [k \in {} |-> None]

\* bool(v): the truth test of `if v:`
Truthy(v) ==
    CASE v.t = "none" -> FALSE
      [] v.t = "bool" -> v.b
      [] v.t = "int" -> v.n # 0
      [] v.t = "str" -> v.s # ""
      [] v.t \in {"tuple", "list"} -> Len(v.e) > 0
      [] v.t = "dict" -> DOMAIN v.d # {}
      [] OTHER -> TRUE

\* isinstance(v, six.string_types)
IsString(v) == v.t = "str"

\* isinstance(v, six.integer_types): bool is a subclass of int
IsInteger(v) == v.t \in {"int", "bool"}

\* v == False: holds of False and of the integer 0
EqualsFalse(v) == (v.t = "bool" /\ ~v.b) \/ (v.t = "int" /\ v.n = 0)

Keys(v) == DOMAIN v.d
Has(v, k) == v.t = "dict" /\ k \in DOMAIN v.d

\* v[k] = x on a dict
SetItem(v, k, x) ==
    Dict([j \in DOMAIN v.d \cup {k} |-> IF j = k THEN x ELSE v.d[j]])

Return(v) == [kind |-> "return", value |-> v]
Raise(e) == [kind |-> "raise", exc |-> e]

\* A reference to an object: origin is "fresh", "SKELETON" or "THEMES" (then
\* key names the theme)
Ref(v, o, k) == [val |-> v, origin |-> o, key |-> k]

---------------------------------------------------------------------------
(* Allow-lists *)

_VALID_BASE_COMPONENTS ==
    {"base_colors", "base_traces", "base_additions", "base_layout"}

_VALID_THEME_COMPONENTS == {"colors", "traces", "additions", "layout"}

_VALID_COLORS ==
    {"increasing", "decreasing", "primary", "secondary", "tertiary",
     "grey", "grey_light", "grey_strong",
     "fill", "fill_light", "fill_strong", "fillcolor"}

_VALID_TRACES ==
    {"candlestick", "line", "line_thin", "line_thick", "line_dashed",
     "line_dashed_thin", "line_dashed_thick",
     "area", "area_dashed", "area_threshold",
     "scatter", "bar", "histogram"}

_VALID_ADDITIONS == {"xaxis", "yaxis"}

_VALID_LAYOUT ==
    {"title", "width", "height", "autosize", "font", "margin", "hovermode",
     "plot_bgcolor", "paper_bgcolor", "showlegend", "legend"}

_VALID_TEMPLATE_KWARGS == {"figsize"}

---------------------------------------------------------------------------
(* utils.update(dict1, dict2): recursive merge of dict2 onto dict1, dict2   *)
(* winning on conflicts; a mapping value is merged into the mapping dict1  *)
(* holds under the key (an empty one when it holds none).  The value       *)
(* returned is dict1 after the in-place update.                            *)

RECURSIVE update(_, _)
update(dict1, dict2) ==
    Dict([k \in DOMAIN dict1.d \cup DOMAIN dict2.d |->
            IF k \notin DOMAIN dict2.d THEN dict1.d[k]
            ELSE IF dict2.d[k].t = "dict"
                 THEN IF k \in DOMAIN dict1.d /\ dict1.d[k].t = "dict"
                      THEN update(dict1.d[k], dict2.d[k])
                      ELSE update(Dict(EmptyMap), dict2.d[k])
                 ELSE dict2.d[k]])

---------------------------------------------------------------------------
(* The module-level theming data *)

SKELETON0 ==
    Dict([base_colors |->
            Dict([increasing |-> Str("#00CC00"),
                  decreasing |-> Str("#FF7700"),
                  primary |-> Str("#252585")]),
          base_traces |->
            Dict([candlestick |-> Dict([type |-> Str("candlestick"),
                                        line |-> Dict([width |-> Num(1)])]),
                  line |-> Dict([type |-> Str("scatter"),
                                 mode |-> Str("lines"),
                                 line |-> Dict([width |-> Num(2)])]),
                  bar |-> Dict([type |-> Str("bar"),
                                line |-> Dict([width |-> Num(1)])])]),
          base_additions |->
            Dict([xaxis |-> Dict([type |-> Str("date")]),
                  yaxis |-> Dict([side |-> Str("right")])]),
          base_layout |->
            Dict([autosize |-> Bool(TRUE),
                  showlegend |-> Bool(FALSE),
                  hovermode |-> Str("x"),
                  title |-> Str(""),
                  margin |-> Dict([l |-> Num(40), r |-> Num(40),
                                   b |-> Num(40), t |-> Num(40),
                                   pad |-> Num(0)])])])

THEMES0 ==
    [light |->
        Dict([colors |-> Dict([primary |-> Str("#1F77B4"),
                               fill |-> Str("#EEEEEE")]),
              traces |-> Dict([line_thin |-> Dict([width |-> Num(1)]),
                               line_dashed |-> Dict([dash |-> Str("dash")])]),
              additions |-> Dict([xaxis |-> Dict([showgrid |-> Bool(TRUE)])]),
              layout |-> Dict([plot_bgcolor |-> Str("#FFFFFF"),
                               font |-> Dict([size |-> Num(12)])])]),
     dark |->
        Dict([colors |-> Dict([primary |-> Str("#AEC7E8"),
                               grey |-> Str("#444444")]),
              traces |-> Dict([line_thick |-> Dict([width |-> Num(4)])]),
              additions |-> Dict([yaxis |-> Dict([showgrid |-> Bool(FALSE)])]),
              layout |-> Dict([plot_bgcolor |-> Str("#000000"),
                               hovermode |-> Str("closest"),
                               margin |-> Dict([l |-> Num(10)])])])]

---------------------------------------------------------------------------
(* get_theme, get_skeleton *)

\* copy.deepcopy(THEMES[theme]): an object of its own
get_theme(theme) ==
    IF theme.t \in {"dict", "list"} THEN Raise("TypeError")
    ELSE IF theme.t = "str" /\ theme.s \in DOMAIN THEMES
    THEN Return(Ref(THEMES[theme.s], "fresh", ""))
    ELSE Raise("Invalid theme")

\* get_skeleton without the deep copy: `return SKELETON`
get_skeleton_shared == Ref(SKELETON, "SKELETON", "")

\* copy.deepcopy(SKELETON): an object of its own
get_skeleton == Ref(SKELETON, "fresh", "")

\* What the module-level objects hold once the object behind reference r
\* holds v
StoreSkeleton(r, v) == IF r.origin = "SKELETON" THEN v ELSE SKELETON

StoreThemes(r, v) ==
    IF r.origin = "THEMES" THEN [THEMES EXCEPT ![r.key] = v] ELSE THEMES

---------------------------------------------------------------------------
(* make_colors, make_additions, make_traces: [out, base], base being the   *)
(* base_* argument after the call                                          *)

\* check_keys without its loop: the merged dict is returned unchecked
check_keys_unchecked(base, valid) == [out |-> Return(base), base |-> base]

\* The closing loop of each make_*: `for key in base: if key not in valid:
\* raise ...`, then `return base`
check_keys(base, valid) ==
    IF \E key \in Keys(base) : key \notin valid
    THEN [out |-> Raise("Invalid keyword"), base |-> base]
    ELSE [out |-> Return(base), base |-> base]

make_colors(base_colors, colors) ==
    IF \E key \in Keys(colors) : key \notin _VALID_COLORS
    THEN [out |-> Raise("Invalid keyword"), base |-> base_colors]
    ELSE check_keys(update(base_colors, colors), _VALID_COLORS)

make_additions(base_additions, additions) ==
    IF \E key \in Keys(additions) : key \notin _VALID_ADDITIONS
    THEN [out |-> Raise("Invalid keyword"), base |-> base_additions]
    ELSE check_keys(update(base_additions, additions), _VALID_ADDITIONS)

\* base_traces[k] = copy.deepcopy(v) for every k of ks
SetItems(base_traces, ks, v) ==
    Dict([j \in DOMAIN base_traces.d \cup ks |->
            IF j \in ks THEN v ELSE base_traces.d[j]])

\* _expand(base_traces), from base_traces['area']['fill'] = 'tonexty' to
\* base_traces['scatter']['mode'] = 'markers'; line is base_traces['line']
expand_areas(base_traces, line) ==
    IF line.t # "dict" THEN [exc |-> "TypeError", base |-> base_traces]
    ELSE [exc |-> "",
          base |-> SetItems(
                       SetItems(base_traces,
                                {"area", "area_dashed", "area_threshold"},
                                SetItem(line, "fill", Str("tonexty"))),
                       {"scatter"}, SetItem(line, "mode", Str("markers")))]

\* _expand(base_traces), from base_traces['bar'] on; areas is the outcome of
\* the lines before
expand_bar(areas) ==
    IF areas.exc # "" THEN areas
    ELSE IF ~Has(areas.base, "bar")
    THEN [exc |-> "KeyError", base |-> areas.base]
    ELSE [exc |-> "",
          base |-> SetItems(areas.base, {"histogram"}, areas.base.d["bar"])]

\* _expand(base_traces): [exc, base]; exc is "" when it runs to its end
expand_traces(base_traces) ==
    IF ~Has(base_traces, "candlestick") \/ ~Has(base_traces, "line")
    THEN [exc |-> "KeyError", base |-> base_traces]
    ELSE expand_bar(
             expand_areas(
                 SetItems(base_traces,
                          {"line_thin", "line_thick", "line_dashed",
                           "line_dashed_thin", "line_dashed_thick", "area"},
                          base_traces.d["line"]),
                 base_traces.d["line"]))

\* for key in traces: utils.update(base_traces[key]['line'], traces[key])
\* over the keys still to visit (taken in a fixed order): [exc, base]
RECURSIVE update_lines(_, _, _)
update_lines(base_traces, traces, keys) ==
    IF keys = {} THEN [exc |-> "", base |-> base_traces]
    ELSE LET key == CHOOSE k \in keys : TRUE
             trace == base_traces.d[key]
         IN  IF trace.t # "dict"
             THEN [exc |-> "TypeError", base |-> base_traces]
             ELSE IF ~Has(trace, "line")
             THEN [exc |-> "KeyError", base |-> base_traces]
             ELSE IF trace.d["line"].t # "dict"
             THEN [exc |-> "TypeError", base |-> base_traces]
             ELSE IF traces.d[key].t # "dict"
             THEN [exc |-> "AttributeError", base |-> base_traces]
             ELSE update_lines(
                      SetItem(base_traces, key,
                              SetItem(trace, "line",
                                      update(trace.d["line"], traces.d[key]))),
                      traces, keys \ {key})

\* make_traces after the update loop
traces_updated(updated) ==
    IF updated.exc # ""
    THEN [out |-> Raise(updated.exc), base |-> updated.base]
    ELSE check_keys(updated.base, _VALID_TRACES)

\* make_traces after _expand
traces_expanded(expanded, traces) ==
    IF expanded.exc # ""
    THEN [out |-> Raise(expanded.exc), base |-> expanded.base]
    ELSE traces_updated(update_lines(expanded.base, traces, Keys(traces)))

make_traces(base_traces, traces) ==
    IF \E key \in Keys(traces) : key \notin _VALID_TRACES
    THEN [out |-> Raise("Invalid keyword"), base |-> base_traces]
    ELSE traces_expanded(expand_traces(base_traces), traces)

---------------------------------------------------------------------------
(* make_layout: [out, base, layout], base and layout being base_layout and *)
(* layout (the theme's layout) after the call                              *)

\* `legend = True  # Debug`: the argument is overwritten on entry
debug_legend(legend) == Bool(TRUE)

\* if legend: base_layout['showlegend'] = True, and base_layout['legend'] =
\* legend when legend is no bool
apply_legend(base_layout, legend) ==
    IF ~Truthy(legend) THEN base_layout
    ELSE IF legend.t # "bool"
    THEN SetItem(SetItem(base_layout, "showlegend", Bool(TRUE)),
                 "legend", legend)
    ELSE SetItem(base_layout, "showlegend", Bool(TRUE))

\* base_layout[k] = v when `if v:` holds
SetIf(base_layout, k, v) ==
    IF Truthy(v) THEN SetItem(base_layout, k, v) ELSE base_layout

\* if dimensions or height or width: base_layout['autosize'] = False
apply_autosize(base_layout, dimensions, height, width) ==
    IF Truthy(dimensions) \/ Truthy(height) \/ Truthy(width)
    THEN SetItem(base_layout, "autosize", Bool(FALSE))
    ELSE base_layout

\* `if dimensions:` block: base_layout['width'] = dimensions[0], then
\* bsae_layout['height'] = dimensions[1], whose right-hand side is evaluated
\* before the undefined name bsae_layout is looked up
set_dimensions(base_layout, dimensions) ==
    IF ~Truthy(dimensions) THEN [exc |-> "", base |-> base_layout]
    ELSE IF dimensions.t \notin {"tuple", "list"}
    THEN [exc |-> "TypeError", base |-> base_layout]
    ELSE IF Len(dimensions.e) < 2
    THEN [exc |-> "IndexError",
          base |-> SetItem(base_layout, "width", dimensions.e[1])]
    ELSE [exc |-> "NameError",
          base |-> SetItem(base_layout, "width", dimensions.e[1])]

\* make_layout from the closing key check on
layout_checked(base_layout, layout) ==
    IF \E key \in Keys(base_layout) : key \notin _VALID_LAYOUT
    THEN [out |-> Raise("Invalid keyword"), base |-> base_layout,
          layout |-> layout]
    ELSE [out |-> Return(base_layout), base |-> base_layout,
          layout |-> layout]

\* make_layout from `if custom_layout:` on.  layout = utils.update(layout,
\* custom_layout): the theme's layout is updated, base_layout is not
layout_custom(base_layout, layout, custom_layout) ==
    IF ~Truthy(custom_layout) THEN layout_checked(base_layout, layout)
    ELSE IF custom_layout.t # "dict"
    THEN [out |-> Raise("AttributeError"), base |-> base_layout,
          layout |-> layout]
    ELSE layout_checked(base_layout, update(layout, custom_layout))

\* make_layout from `if height:` on; dim is the outcome of the dimensions
\* block
layout_sized(dim, layout, custom_layout, width, height, margin) ==
    IF dim.exc # ""
    THEN [out |-> Raise(dim.exc), base |-> dim.base, layout |-> layout]
    ELSE layout_custom(
             SetIf(SetIf(SetIf(dim.base, "height", height), "width", width),
                   "margin", margin),
             layout, custom_layout)

make_layout(base_layout, layout, custom_layout, legend, hovermode, annotations, shapes, title, dimensions, width, height, margin) ==
    IF \E key \in Keys(layout) : key \notin _VALID_LAYOUT
    THEN [out |-> Raise("Invalid keyword"), base |-> base_layout,
          layout |-> layout]
    ELSE layout_sized(
             set_dimensions(
                 apply_autosize(
                     SetIf(SetIf(SetIf(SetIf(
                         apply_legend(update(base_layout, layout),
                                      debug_legend(legend)),
                         "hovermode", hovermode),
                         "annotations", annotations),
                         "shapes", shapes),
                         "title", title),
                     dimensions, height, width),
                 dimensions),
             layout, custom_layout, width, height, margin)

---------------------------------------------------------------------------
(* get_template: the argument checks, in the order of the code.  A check   *)
(* gives the exception it raises ("" for none), a coercion [exc, val].     *)

\* auth.get_config_file()['theme']: the theme named by the configuration file
config_theme == Str(config)

check_kwargs(kwargs) ==
    IF \E key \in Keys(kwargs) : key \notin _VALID_TEMPLATE_KWARGS
    THEN "Invalid keyword" ELSE ""

\* if theme: if instance(theme, six.string_types) ... : the name `instance`
\* is not defined, so the test raises NameError for every truthy theme
resolve_theme(theme) ==
    IF Truthy(theme) THEN Raise("NameError")
    ELSE get_theme(config_theme)

coerce_layout(layout) ==
    IF ~Truthy(layout) THEN [exc |-> "", val |-> None]
    ELSE IF layout.t = "dict" THEN [exc |-> "", val |-> layout]
    ELSE [exc |-> "Invalid layout", val |-> None]

\* a legend that is neither bool nor dict: layout = dict(layout.items())
check_legend(legend, layout) ==
    IF Truthy(legend) /\ legend.t \notin {"bool", "dict"} /\ layout.t # "dict"
    THEN "Invalid legend" ELSE ""

check_hovermode(hovermode) ==
    IF (Truthy(hovermode) \/ EqualsFalse(hovermode)) /\ ~IsString(hovermode)
    THEN "Invalid hovermode" ELSE ""

\* annotations, shapes: list(x) of a tuple; the other values are not iterable
coerce_list(x, what) ==
    IF ~Truthy(x) \/ x.t = "list" THEN [exc |-> "", val |-> x]
    ELSE IF x.t = "tuple" THEN [exc |-> "", val |-> List(x.e)]
    ELSE [exc |-> what, val |-> x]

check_title(title) ==
    IF Truthy(title) /\ ~IsString(title) THEN "Invalid title" ELSE ""

\* tuple(80 * i for i in figsize)
scale_figsize(figsize) ==
    Tuple([i \in 1..Len(figsize.e) |-> Num(80 * figsize.e[i].n)])

coerce_dimensions(kwargs, dimensions) ==
    IF Has(kwargs, "figsize")
    THEN LET figsize == kwargs.d["figsize"]
         IN  IF figsize.t = "tuple" /\ Len(figsize.e) = 2
             THEN [exc |-> "", val |-> scale_figsize(figsize)]
             ELSE [exc |-> "Invalid figsize", val |-> dimensions]
    ELSE IF Truthy(dimensions)
    THEN IF dimensions.t # "tuple" \/ Len(dimensions.e) = 2
         THEN [exc |-> "Invalid dimensions", val |-> dimensions]
         ELSE [exc |-> "", val |-> dimensions]
    ELSE [exc |-> "", val |-> dimensions]

check_integer(x, what) ==
    IF Truthy(x) /\ ~IsInteger(x) THEN what ELSE ""

\* dict(zip(names, margin))
zip_margin(names, margin) ==
    Dict([k \in {names[i] : i \in 1..Len(names)} |->
            margin.e[CHOOSE i \in 1..Len(names) : names[i] = k]])

coerce_margin(margin) ==
    IF ~Truthy(margin) \/ margin.t = "dict" THEN [exc |-> "", val |-> margin]
    ELSE IF margin.t = "tuple"
    THEN IF Len(margin.e) = 4
         THEN [exc |-> "", val |-> zip_margin(<<"l", "r", "b", "t">>, margin)]
         ELSE IF Len(margin.e) = 5
         THEN [exc |-> "",
               val |-> zip_margin(<<"l", "r", "b", "t", "pad">>, margin)]
         ELSE [exc |-> "Invalid margin", val |-> margin]
    ELSE [exc |-> "Invalid margin", val |-> margin]

\* The first exception of a sequence of checks, "" when all pass
RECURSIVE first_raised(_)
first_raised(excs) ==
    IF excs = <<>> THEN ""
    ELSE IF Head(excs) # "" THEN Head(excs)
    ELSE first_raised(Tail(excs))

---------------------------------------------------------------------------
(* get_template(theme, layout, legend, ..., margin, **kwargs), the          *)
(* arguments as the record a: [out, skeleton, theme], skeleton and theme   *)
(* being the references the call obtained, holding the objects' values     *)
(* after the call                                                          *)

NoRef == Ref(None, "fresh", "")

\* The reference r once the object's component k holds v
PutRef(r, k, v) == Ref(SetItem(r.val, k, v), r.origin, r.key)

\* "Generate final template": st is [out, skeleton, theme, template], out
\* the outcome so far and template the final_* made so far; res is the
\* outcome of make_<part> on the skeleton's component base
made(st, part, base, res) ==
    [out |-> res.out,
     skeleton |-> PutRef(st.skeleton, base, res.base),
     theme |-> IF part = "layout"
               THEN PutRef(st.theme, "layout", res.layout) ELSE st.theme,
     template |-> IF res.out.kind = "return"
                  THEN SetItem(st.template, part, res.out.value)
                  ELSE st.template]

final_colors(st) ==
    made(st, "colors", "base_colors",
         make_colors(st.skeleton.val.d["base_colors"],
                     st.theme.val.d["colors"]))

final_traces(st) ==
    IF st.out.kind = "raise" THEN st
    ELSE made(st, "traces", "base_traces",
              make_traces(st.skeleton.val.d["base_traces"],
                          st.theme.val.d["traces"]))

final_additions(st) ==
    IF st.out.kind = "raise" THEN st
    ELSE made(st, "additions", "base_additions",
              make_additions(st.skeleton.val.d["base_additions"],
                             st.theme.val.d["additions"]))

\* kw holds the arguments of make_layout after custom_layout..margin
final_layout(st, kw) ==
    IF st.out.kind = "raise" THEN st
    ELSE made(st, "layout", "base_layout",
              make_layout(st.skeleton.val.d["base_layout"],
                          st.theme.val.d["layout"],
                          kw.custom_layout, kw.legend, kw.hovermode,
                          kw.annotations, kw.shapes, kw.title, kw.dimensions,
                          kw.width, kw.height, kw.margin))

\* template = dict(colors=final_colors, ...); return template
return_template(st) ==
    [out |-> IF st.out.kind = "raise" THEN st.out ELSE Return(st.template),
     skeleton |-> st.skeleton, theme |-> st.theme]

make_template(skeleton, theme, kw) ==
    return_template(
        final_layout(
            final_additions(
                final_traces(
                    final_colors([out |-> Return(None), skeleton |-> skeleton,
                                  theme |-> theme,
                                  template |-> Dict(EmptyMap)]))),
            kw))

\* The checks of get_template from the layout block to the split of theme
\* and skeleton: the exception raised, "" for none
argument_checks(a, skeleton, theme, custom_layout, annotations, shapes, dimensions, margin) ==
    first_raised(<<
        custom_layout.exc,
        check_legend(a.legend, a.layout),
        check_hovermode(a.hovermode),
        annotations.exc,
        shapes.exc,
        check_title(a.title),
        dimensions.exc,
        check_integer(a.width, "Invalid width"),
        check_integer(a.height, "Invalid height"),
        margin.exc,
        IF \A key \in _VALID_BASE_COMPONENTS : Has(skeleton.val, key)
        THEN "" ELSE "Improperly configured skeleton",
        IF \A key \in _VALID_THEME_COMPONENTS : Has(theme.val, key)
        THEN "" ELSE "Improperly configured theme">>)

\* get_template once skeleton and theme are obtained and the arguments
\* coerced; exc is the exception of the checks
checked_template(exc, a, skeleton, theme, custom_layout, annotations, shapes, dimensions, margin) ==
    IF exc # ""
    THEN [out |-> Raise(exc), skeleton |-> skeleton, theme |-> theme]
    ELSE make_template(skeleton, theme,
                       [custom_layout |-> custom_layout.val,
                        legend |-> a.legend, hovermode |-> a.hovermode,
                        annotations |-> annotations.val,
                        shapes |-> shapes.val, title |-> a.title,
                        dimensions |-> dimensions.val, width |-> a.width,
                        height |-> a.height, margin |-> margin.val])

\* get_template once the skeleton is obtained and the theme block has run
coerced_template(a, skeleton, theme, custom_layout, annotations, shapes, dimensions, margin) ==
    checked_template(
        argument_checks(a, skeleton, theme, custom_layout, annotations,
                        shapes, dimensions, margin),
        a, skeleton, theme, custom_layout, annotations, shapes, dimensions,
        margin)

\* get_template once the skeleton is obtained; resolved is the outcome of
\* the theme block
themed_template(a, skeleton, resolved) ==
    IF resolved.kind = "raise"
    THEN [out |-> resolved, skeleton |-> skeleton, theme |-> NoRef]
    ELSE coerced_template(a, skeleton, resolved.value,
                          coerce_layout(a.layout),
                          coerce_list(a.annotations, "Invalid annotations"),
                          coerce_list(a.shapes, "Invalid shapes"),
                          coerce_dimensions(a.kwargs, a.dimensions),
                          coerce_margin(a.margin))

get_template(a) ==
    IF check_kwargs(a.kwargs) # ""
    THEN [out |-> Raise(check_kwargs(a.kwargs)), skeleton |-> NoRef,
          theme |-> NoRef]
    ELSE themed_template(a, get_skeleton, resolve_theme(a.theme))

---------------------------------------------------------------------------
(* The arguments the calls are made with *)

\* At most this many keyword arguments of a call differ from their defaults
MaxOverrides == 2

Fields ==
    {"theme", "layout", "legend", "hovermode", "annotations", "shapes",
     "title", "dimensions", "width", "height", "margin", "kwargs"}

\* def get_template(theme=None, layout=None, ..., margin=None, **kwargs)
Default(f) == IF f = "kwargs" THEN Dict(EmptyMap) ELSE None

\* A theme the caller wrote: every component holds a key outside its
\* allow-list
BadTheme ==
    Dict([colors |-> Dict([primary |-> Str("#123456"),
                           bogus |-> Str("#000000")]),
          traces |-> Dict([line |-> Dict([width |-> Num(3)]),
                           bogus |-> Dict([width |-> Num(3)])]),
          additions |-> Dict([xaxis |-> Dict([showgrid |-> Bool(TRUE)]),
                              bogus |-> Dict(EmptyMap)]),
          layout |-> Dict([title |-> Str("Bad"), bogus |-> Num(1)])])

\* Skeletons the caller wrote: one whose components hold a key outside the
\* allow-lists, one whose base_traces lack the 'bar' primitive
BadSkeleton ==
    Dict([k \in Keys(SKELETON0) |->
            SetItem(SKELETON0.d[k], "bogus", Dict([line |-> Dict(EmptyMap)]))])

NoBarSkeleton ==
    SetItem(SKELETON0, "base_traces",
            Dict([candlestick |-> SKELETON0.d["base_traces"].d["candlestick"],
                  line |-> SKELETON0.d["base_traces"].d["line"]]))

\* The values tried for each argument besides its default
Alternatives ==
    [theme |-> <<Str("light"), Str("nosuch"), BadTheme>>,
     layout |-> <<Dict([title |-> Str("Custom"), width |-> Num(300),
                        showlegend |-> Bool(FALSE),
                        margin |-> Dict([l |-> Num(5)])]),
                  Obj>>,
     legend |-> <<Bool(TRUE), Bool(FALSE), Dict([x |-> Num(0)]), Obj>>,
     hovermode |-> <<Str("closest"), Bool(FALSE)>>,
     annotations |-> <<List(<<Str("note")>>)>>,
     shapes |-> <<Tuple(<<Str("rect")>>)>>,
     title |-> <<Str("Chart"), Num(7)>>,
     dimensions |-> <<Tuple(<<Num(800), Num(600)>>), Tuple(<<Num(800)>>)>>,
     width |-> <<Num(500), Str("wide")>>,
     height |-> <<Num(400), Num(0)>>,
     margin |-> <<Dict(EmptyMap),
                  Dict([l |-> Num(1), r |-> Num(2)]),
                  Tuple(<<Num(1), Num(2), Num(3), Num(4)>>),
                  Tuple(<<Num(1), Num(2), Num(3), Num(4), Num(5)>>),
                  Tuple(<<Num(1), Num(2), Num(3)>>),
                  Num(9)>>,
     kwargs |-> <<Dict([figsize |-> Tuple(<<Num(10), Num(5)>>)]),
                  Dict([figsize |-> Tuple(<<Num(10)>>)]),
                  Dict([bogus |-> Num(1)])>>]

MostAlternatives ==
    LET lens == {Len(Alternatives[f]) : f \in Fields}
    IN  CHOOSE m \in lens : \A n \in lens : n <= m

\* The argument records that override the fields S, field f with its g[f]-th
\* alternative
Overriding(S) ==
    {[f \in Fields |-> IF f \in S THEN Alternatives[f][g[f]] ELSE Default(f)] :
        g \in {h \in [S -> 1..MostAlternatives] :
                  \A f \in S : h[f] <= Len(Alternatives[f])}}

Args ==
    UNION {Overriding(S) :
              S \in {T \in SUBSET Fields : Cardinality(T) <= MaxOverrides}}

\* The arguments of a direct make_layout call (it has no theme argument)
LayoutArgs == {a \in Args : a.theme = None}

ThemeArgs == {Str("light"), Str("dark"), Str("nosuch"), None, Num(3)}

\* The skeletons and themes the caller passes components of to make_*
SkeletonRefs ==
    {get_skeleton, Ref(BadSkeleton, "fresh", ""),
     Ref(NoBarSkeleton, "fresh", "")}

ThemeRefs ==
    {get_theme(Str(name)).value : name \in DOMAIN THEMES}
        \cup {Ref(BadTheme, "fresh", "")}

---------------------------------------------------------------------------
(* The calls.  The caller makes one call at a time: call records the call  *)
(* that has just ended (its arguments, its outcome, and the values the     *)
(* objects passed by reference hold after it: base for the skeleton        *)
(* component or skeleton, layout for the theme layout or theme) until the  *)
(* caller has taken the result.                                            *)

Idle ==
    [op |-> "idle", args |-> None, out |-> Return(None),
     base |-> None, layout |-> None]

Init ==
    /\ THEMES = THEMES0
    /\ SKELETON = SKELETON0
    /\ config \in DOMAIN THEMES0
    /\ call = Idle

GetTheme ==
    /\ call = Idle
    /\ \E theme \in ThemeArgs :
       \E res \in {get_theme(theme)} :
          /\ call' = [op |-> "get_theme", args |-> theme,
                      out |-> IF res.kind = "return"
                              THEN Return(res.value.val) ELSE res,
                      base |-> None, layout |-> None]
          /\ UNCHANGED <<THEMES, SKELETON, config>>

GetSkeleton ==
    /\ call = Idle
    /\ call' = [op |-> "get_skeleton", args |-> None,
                out |-> Return(get_skeleton.val),
                base |-> None, layout |-> None]
    /\ UNCHANGED <<THEMES, SKELETON, config>>

MakeColors ==
    /\ call = Idle
    /\ \E sk \in SkeletonRefs, th \in ThemeRefs :
       \E res \in {make_colors(sk.val.d["base_colors"],
                               th.val.d["colors"])} :
          /\ call' = [op |-> "make_colors",
                      args |-> [base |-> sk.val.d["base_colors"],
                                theme |-> th.val.d["colors"]],
                      out |-> res.out, base |-> res.base,
                      layout |-> th.val.d["colors"]]
          /\ SKELETON' = StoreSkeleton(sk, SetItem(sk.val, "base_colors",
                                                   res.base))
          /\ UNCHANGED <<THEMES, config>>

MakeTraces ==
    /\ call = Idle
    /\ \E sk \in SkeletonRefs, th \in ThemeRefs :
       \E res \in {make_traces(sk.val.d["base_traces"],
                               th.val.d["traces"])} :
          /\ call' = [op |-> "make_traces",
                      args |-> [base |-> sk.val.d["base_traces"],
                                theme |-> th.val.d["traces"]],
                      out |-> res.out, base |-> res.base,
                      layout |-> th.val.d["traces"]]
          /\ SKELETON' = StoreSkeleton(sk, SetItem(sk.val, "base_traces",
                                                   res.base))
          /\ UNCHANGED <<THEMES, config>>

MakeAdditions ==
    /\ call = Idle
    /\ \E sk \in SkeletonRefs, th \in ThemeRefs :
       \E res \in {make_additions(sk.val.d["base_additions"],
                                  th.val.d["additions"])} :
          /\ call' = [op |-> "make_additions",
                      args |-> [base |-> sk.val.d["base_additions"],
                                theme |-> th.val.d["additions"]],
                      out |-> res.out, base |-> res.base,
                      layout |-> th.val.d["additions"]]
          /\ SKELETON' = StoreSkeleton(sk, SetItem(sk.val, "base_additions",
                                                   res.base))
          /\ UNCHANGED <<THEMES, config>>

MakeLayout ==
    /\ call = Idle
    /\ \E sk \in SkeletonRefs, th \in ThemeRefs, a \in LayoutArgs :
       \E res \in {make_layout(sk.val.d["base_layout"], th.val.d["layout"],
                               a.layout, a.legend, a.hovermode, a.annotations,
                               a.shapes, a.title, a.dimensions, a.width,
                               a.height, a.margin)} :
          /\ call' = [op |-> "make_layout",
                      args |-> [base |-> sk.val.d["base_layout"],
                                theme |-> th.val.d["layout"],
                                kw |-> a],
                      out |-> res.out, base |-> res.base,
                      layout |-> res.layout]
          /\ SKELETON' = StoreSkeleton(sk, SetItem(sk.val, "base_layout",
                                                   res.base))
          /\ THEMES' = StoreThemes(th, SetItem(th.val, "layout", res.layout))
          /\ UNCHANGED config

GetTemplate ==
    /\ call = Idle
    /\ \E a \in Args :
       \E res \in {get_template(a)} :
          /\ call' = [op |-> "get_template", args |-> a, out |-> res.out,
                      base |-> res.skeleton.val, layout |-> res.theme.val]
          /\ SKELETON' = StoreSkeleton(res.skeleton, res.skeleton.val)
          /\ THEMES' = StoreThemes(res.theme, res.theme.val)
          /\ UNCHANGED config

\* The caller takes the result of the call
TakeResult ==
    /\ call # Idle
    /\ call' = Idle
    /\ UNCHANGED <<THEMES, SKELETON, config>>

Next ==
    \/ GetTheme
    \/ GetSkeleton
    \/ MakeColors
    \/ MakeTraces
    \/ MakeAdditions
    \/ MakeLayout
    \/ GetTemplate
    \/ TakeResult

Spec == Init /\ [][Next]_vars

---------------------------------------------------------------------------
(* Properties *)

NoOverrides == [f \in Fields |-> Default(f)]

\* The call that has just ended returned normally
Returned == call.out.kind = "return"

\* The layout a make_layout or get_template call returned
ReturnedLayout ==
    IF call.op = "get_template" THEN call.out.value.d["layout"]
    ELSE call.out.value

\* The keyword arguments of a make_layout or get_template call
Keywords == IF call.op = "get_template" THEN call.args ELSE call.args.kw

\* What merging the theme layout onto the skeleton's base_layout leaves, for
\* a make_layout or get_template call
MergedLayout ==
    IF call.op = "get_template"
    THEN update(SKELETON.d["base_layout"], THEMES[config].d["layout"])
    ELSE update(call.args.base, call.args.theme)

\* x holds the values of y: y itself, or for a dict y every key of y with a
\* value that holds y's
RECURSIVE Holds(_, _)
Holds(x, y) ==
    IF y.t = "dict"
    THEN /\ x.t = "dict"
         /\ \A k \in Keys(y) : k \in Keys(x) /\ Holds(x.d[k], y.d[k])
    ELSE x = y

\* The allow-list of a make_* call
AllowList(op) ==
    CASE op = "make_colors" -> _VALID_COLORS
      [] op = "make_traces" -> _VALID_TRACES
      [] op = "make_additions" -> _VALID_ADDITIONS
      [] op = "make_layout" -> _VALID_LAYOUT

MakeOps == {"make_colors", "make_traces", "make_additions", "make_layout"}

\* C1: get_template called with the name of an existing theme and no other
\* argument returns, without raising, a dict whose keys are exactly 'colors',
\* 'traces', 'additions' and 'layout', each the result of merging the theme's
\* component onto the skeleton's base_* component.
C1_NamedThemeReturnsTemplate ==
    (/\ call.op = "get_template"
     /\ call.args.theme.t = "str"
     /\ call.args.theme.s \in DOMAIN THEMES
     /\ \A f \in Fields \ {"theme"} : call.args[f] = Default(f))
    => /\ Returned
       /\ Keys(call.out.value) = _VALID_THEME_COMPONENTS
       /\ call.out.value =
              make_template(Ref(SKELETON, "fresh", ""),
                            Ref(THEMES[call.args.theme.s], "fresh", ""),
                            [custom_layout |-> None, legend |-> None,
                             hovermode |-> None, annotations |-> None,
                             shapes |-> None, title |-> None,
                             dimensions |-> None, width |-> None,
                             height |-> None, margin |-> None]).out.value

\* C2: a make_* call whose theme component holds a key outside the
\* allow-list raises 'Invalid keyword', and a make_* call that returns
\* returns a dict all of whose keys are in the allow-list.
C2_KeysInAllowList ==
    call.op \in MakeOps
    => /\ (\E key \in Keys(call.args.theme) : key \notin AllowList(call.op))
              => call.out = Raise("Invalid keyword")
       /\ Returned => Keys(call.out.value) \subseteq AllowList(call.op)

\* A make_layout call was refused because the theme layout it was given
\* holds a key outside _VALID_LAYOUT
C2_Witness ==
    /\ call.op = "make_layout"
    /\ \E key \in Keys(call.args.theme) : key \notin _VALID_LAYOUT
    /\ call.out = Raise("Invalid keyword")

\* C3: for every key of custom_layout, the layout returned by make_layout
\* (and by get_template) holds custom_layout's value for that key.
C3_CustomLayoutWins ==
    (/\ call.op \in {"make_layout", "get_template"}
     /\ Keywords.layout.t = "dict"
     /\ Returned)
    => Holds(ReturnedLayout, Keywords.layout)

\* C4: with dimensions = (w, h), w and h non-zero, and neither width nor
\* height passed, the call does not raise and the layout has width w, height
\* h and autosize False; a non-zero width or height alone sets autosize
\* False.
C4_DimensionsSetSize ==
    call.op \in {"make_layout", "get_template"}
    => /\ (/\ Keywords = [NoOverrides EXCEPT
                             !.dimensions = Keywords.dimensions]
           /\ Keywords.dimensions.t = "tuple"
           /\ Len(Keywords.dimensions.e) = 2
           /\ \A i \in 1..2 : Truthy(Keywords.dimensions.e[i])
           /\ call.op = "make_layout" =>
                  /\ call.args.base = SKELETON.d["base_layout"]
                  /\ \E name \in DOMAIN THEMES :
                         call.args.theme = THEMES[name].d["layout"])
          => /\ Returned
             /\ Has(ReturnedLayout, "width")
             /\ ReturnedLayout.d["width"] = Keywords.dimensions.e[1]
             /\ Has(ReturnedLayout, "height")
             /\ ReturnedLayout.d["height"] = Keywords.dimensions.e[2]
             /\ ReturnedLayout.d["autosize"] = Bool(FALSE)
       /\ (/\ Returned
           /\ ~Truthy(Keywords.dimensions)
           /\ Truthy(Keywords.width) \/ Truthy(Keywords.height))
          => ReturnedLayout.d["autosize"] = Bool(FALSE)

\* C5: with legend = True the layout has showlegend True; with legend =
\* False showlegend keeps the value the skeleton/theme merge left; in both
\* cases the 'legend' entry is the one the merge left.
C5_LegendToggles ==
    (/\ call.op \in {"make_layout", "get_template"}
     /\ Keywords.legend.t = "bool"
     /\ ~Truthy(Keywords.layout)
     /\ Returned)
    => /\ Keywords.legend.b => ReturnedLayout.d["showlegend"] = Bool(TRUE)
       /\ ~Keywords.legend.b =>
              /\ Has(ReturnedLayout, "showlegend")
                     <=> Has(MergedLayout, "showlegend")
              /\ Has(MergedLayout, "showlegend") =>
                     ReturnedLayout.d["showlegend"]
                         = MergedLayout.d["showlegend"]
       /\ Has(ReturnedLayout, "legend") <=> Has(MergedLayout, "legend")
       /\ Has(MergedLayout, "legend") =>
              ReturnedLayout.d["legend"] = MergedLayout.d["legend"]

\* The dict the claim says a margin argument becomes
MarginDict(margin) ==
    IF margin.t = "dict" THEN margin
    ELSE IF Len(margin.e) = 4
    THEN Dict([l |-> margin.e[1], r |-> margin.e[2], b |-> margin.e[3],
               t |-> margin.e[4]])
    ELSE Dict([l |-> margin.e[1], r |-> margin.e[2], b |-> margin.e[3],
               t |-> margin.e[4], pad |-> margin.e[5]])

\* The margins get_template accepts: a dict, a 4-tuple, a 5-tuple
MarginAccepted(margin) ==
    \/ margin.t = "dict"
    \/ margin.t = "tuple" /\ Len(margin.e) \in {4, 5}

\* C6: in get_template a (non-empty) dict margin is passed through, a
\* 4-tuple becomes {l, r, b, t} and a 5-tuple {l, r, b, t, pad} in that
\* order, and this dict is the 'margin' of the returned layout; a non-empty
\* tuple of another length, or a truthy value that is neither dict nor tuple,
\* raises 'Invalid margin' (stated of the calls whose other arguments are a
\* theme name, or none).
C6_MarginCoerced ==
    (call.op = "get_template" /\ Truthy(call.args.margin))
    => /\ (MarginAccepted(call.args.margin) /\ Returned)
              => /\ Has(ReturnedLayout, "margin")
                 /\ ReturnedLayout.d["margin"] = MarginDict(call.args.margin)
       /\ (/\ ~MarginAccepted(call.args.margin)
           /\ \A f \in Fields \ {"theme", "margin"} :
                  call.args[f] = Default(f)
           /\ \/ call.args.theme = None
              \/ /\ call.args.theme.t = "str"
                 /\ call.args.theme.s \in DOMAIN THEMES)
              => call.out = Raise("Invalid margin")

\* C7: THEMES and SKELETON are never modified: get_theme and get_skeleton
\* return copies equal to them, after any sequence of calls (raising ones
\* too) both hold their initial values, a get_template call repeated with the
\* same arguments has the same outcome, and get_theme of a name that is not
\* in THEMES raises 'Invalid theme'.
C7_ThemesAndSkeletonUnmodified ==
    /\ THEMES = THEMES0
    /\ SKELETON = SKELETON0
    /\ call.op = "get_skeleton" => call.out = Return(SKELETON0)
    /\ (call.op = "get_theme" /\ call.args.t = "str") =>
           IF call.args.s \in DOMAIN THEMES0
           THEN call.out = Return(THEMES0[call.args.s])
           ELSE call.out = Raise("Invalid theme")
    /\ call.op = "get_template" => get_template(call.args).out = call.out

\* A get_template call returned a template, having updated its copy of the
\* skeleton in place
C7_Witness ==
    /\ call.op = "get_template"
    /\ Returned
    /\ call.base # SKELETON0
    /\ call.base.d["base_layout"] = call.out.value.d["layout"]

====
